---- MODULE Spec2Model ----
(***************************************************************************)
(* Model of main.py: the PIC programmer client.  One run of main() is a    *)
(* sequential state machine: connect, then the requested operations in the *)
(* fixed order wipe, flash, verify, erase-row, write, read, dump, then the *)
(* finally clause (disconnect).  Every channel command is one entry of     *)
(* `log`; the device behind the serial port is `dev`.                      *)
(*                                                                         *)
(* Spec      one run of main() for every command line of up to MaxOps      *)
(*           operations.                                                   *)
(* SpecFlash the flash workflow run up to MaxRuns times on the same device.*)
(* SpecCodec save_hex, load_hex and chunk_data on their own: a HEX file is *)
(*           a sequence of characters, a memory a function from word       *)
(*           addresses to words.                                           *)
(***************************************************************************)
EXTENDS Integers, Sequences, FiniteSets, TLC

\* ------------------------------------------------------------------ bounds
MaxFaults == 1          \* device faults (nack, lost write, short read) on one device
MaxOps == 2             \* operations requested on one command line

\* ------------------------------------------------------- program constants
SENTINEL == 16383       \* 0x3FFF, the erased-flash word
READ_CHUNK == 64        \* read granularity of the read and dump loops
WIPE_ADDR == 33023      \* 0x80FF, the bulk-erase address

None == <<-1>>          \* Python None as a read result (never a byte string)

\* -------------------------------------------------------------- input sets
\* The decoded HEX image: raw_data is Image restricted to a set of addresses.
HexAddrs == {0, 1, 4, 8}
Image == [a \in HexAddrs |->
            CASE a = 0 -> 4660       \* 0x1234
              [] a = 1 -> 43981      \* 0xABCD
              [] a = 4 -> 258        \* 0x0102
              [] OTHER -> 16164]     \* 0x3F24

\* Device profiles <<FLASH_WRITE, ROMSIZE, CONFIG start, CONFIG end>>;
\* start = end = 0 is what main() keeps when the profile has no CONFIG key.
Profiles == { <<2, 6, 0, 0>>, <<2, 6, 8, 9>>, <<2, 6, 4, 5>>, <<1, 130, 131, 132>> }

\* lines 246-249: the values main() starts from
NoProfile == <<32, 0, 0, 0>>

OpNames == <<"wipe", "flash", "verify", "erase_row", "write", "read", "dump">>
OpSet == {OpNames[k] : k \in 1..Len(OpNames)}

\* Device contents before the run: a previous image (absent cells are erased).
DevInit == [a \in {0, 1, 8, 70, 131} |->
              CASE a = 8 -> 16164 [] a \in {1, 131} -> SENTINEL [] OTHER -> 4660]

EraseAddrs == {0, 3}
\* -w HEX_DATA as a string of hex digits (16 stands for a non-hex character)
WriteStrs == { <<1, 2, 3, 4>>, <<1, 2>>, <<1, 16>>, <<1, 2, 3>> }
WriteAddrs == {0}
ReadArgs == { <<0, 2>>, <<0, 66>> }

VARIABLES
    args,               \* parsed command line (argparse namespace)
    flash_write_size, rom_size, config_mem_start, config_mem_end,
    raw_data,           \* load_hex(args.hexfile)
    pc,                 \* position of main()
    idx,                \* position of the loop in progress
    ser,                \* prog.ser: "none" | "open" | "closed"
    dev,                \* device memory, word address -> word (absent = erased)
    log,                \* every ArduinoProgrammer call, in order
    faults,             \* device faults so far
    flash_data, config_data, flash_chunks,
    flash_error, config_ok, flash_ok,
    current_addr, remaining,    \* the -r loop
    dump_data, filtered_dump,
    out,                \* result lines printed to the user, in order
    exc,                \* exception in flight: "none" | "AttributeError" | "SystemExit"
    prior_runs,         \* how the earlier runs on this device ended: "ok" | "failed"
    codec_case,         \* which codec function is exercised: "none" | "save" | "text" | "chunk"
    codec_pc,           \* its position: "idle" | "save" | "load" | "chunk" | "done"
    mem,                \* the memory handed to save_hex or chunk_data
    key_order,          \* iteration order of that dict (data_dict.keys())
    chunk_size_in,      \* chunk_size handed to chunk_data
    recs,               \* the records of a HEX text that was not written by save_hex
    hexfile_data,       \* the text of the HEX file
    hex_words,          \* what load_hex returned
    final_chunks        \* what chunk_data returned

\* the state of the HEX codec and chunk_data functions when exercised on their own
codecv == <<codec_case, codec_pc, mem, key_order, chunk_size_in, recs, hexfile_data,
            hex_words, final_chunks>>
\* what a run of main() never changes
inputs == <<args, flash_write_size, rom_size, config_mem_start, config_mem_end, raw_data,
            prior_runs, codecv>>
flashv == <<flash_data, config_data, flash_chunks, flash_error, config_ok, flash_ok>>
dumpv == <<current_addr, remaining, dump_data, filtered_dump>>
vars == <<inputs, pc, idx, ser, dev, log, faults, flashv, dumpv, out, exc>>

\* ----------------------------------------------------------------- helpers
\* min(a, b) taken as its first argument
Min_First(a, b) == a

Min(a, b) == IF a < b THEN a ELSE b

Restrict(f, S) == [a \in S |-> f[a]]

\* sorted(S): the i-th element has i-1 elements of S below it
SortedSeq(S) ==
    [i \in 1..Cardinality(S) |-> CHOOSE x \in S : Cardinality({y \in S : y < x}) = i - 1]

SortedKeys(f) == SortedSeq(DOMAIN f)

\* w.to_bytes(2, 'big')
int_to_bytes(w) == << w \div 256, w % 256 >>

\* int.from_bytes(b[i:i+2], 'big') for the k-th word (k from 0) of b
WordAt(b, k) == b[2 * k + 1] * 256 + b[2 * k + 2]

\* bytes.fromhex(s): None stands for ValueError (odd digit count or a non-hex digit)
fromhex(s) ==
    IF Len(s) % 2 = 1 \/ \E k \in 1..Len(s) : s[k] > 15 THEN None
    ELSE [k \in 1..(Len(s) \div 2) |-> s[2 * k - 1] * 16 + s[2 * k]]

\* ------------------------------------------------------------- chunk_data
\* lines 24-27: the body of the loop, for one address
ChunkPut(chunks, addr, word, chunk_size) ==
    [b \in DOMAIN chunks \cup {addr - (addr % chunk_size)} |->
        IF b = addr - (addr % chunk_size)
        THEN [o \in 0..(chunk_size - 1) |->
                IF o = addr - b THEN word
                ELSE IF b \in DOMAIN chunks THEN chunks[b][o] ELSE SENTINEL]
        ELSE chunks[b]]

\* lines 19-27: the loop over sorted(data_dict.keys()), after its first i addresses
RECURSIVE ChunkFold(_, _, _, _)
ChunkFold(keys, i, data_dict, chunk_size) ==
    IF i = 0 THEN <<>>
    ELSE ChunkPut(ChunkFold(keys, i - 1, data_dict, chunk_size), keys[i],
                  data_dict[keys[i]], chunk_size)

\* lines 29-34: each row serialised as big-endian words
RowBytes(words, chunk_size) ==
    [k \in 1..(2 * chunk_size) |-> int_to_bytes(words[(k - 1) \div 2])[((k - 1) % 2) + 1]]

chunk_data(data_dict, chunk_size) ==
    LET chunks == ChunkFold(SortedKeys(data_dict), Cardinality(DOMAIN data_dict),
                            data_dict, chunk_size)
    IN [b \in DOMAIN chunks |-> RowBytes(chunks[b], chunk_size)]

\* ------------------------------------------------- the flash/verify split
\* lines 306-310 (and 387-391): config range first, then addr < rom_size
IsConfigAddr(addr) == config_mem_start <= addr /\ addr <= config_mem_end

SplitConfig(raw) == Restrict(raw, {a \in DOMAIN raw : IsConfigAddr(a)})

SplitFlash(raw) == Restrict(raw, {a \in DOMAIN raw : ~IsConfigAddr(a) /\ a < rom_size})

\* lines 336-338 (and 398-400): one big-endian word per config address
ConfigChunks(cd) == [a \in DOMAIN cd |-> int_to_bytes(cd[a])]

\* ------------------------------------------------------------- the device
\* The device behind the channel (protocol table): a write stores its words,
\* a read returns the stored words big-endian, absent cells read as erased.
DevWord(d, a) == IF a \in DOMAIN d THEN d[a] ELSE SENTINEL

DevBytes(d, addr, n) ==
    [k \in 1..(2 * n) |-> int_to_bytes(DevWord(d, addr + (k - 1) \div 2))[((k - 1) % 2) + 1]]

DevStore(d, addr, data) ==
    LET R == addr..(addr + Len(data) \div 2 - 1)
    IN [a \in DOMAIN d \cup R |-> IF a \in R THEN WordAt(data, a - addr) ELSE d[a]]

DevErase(d, R) == Restrict(d, DOMAIN d \ R)

\* the device row holding addr
DevRow(addr) ==
    LET base == addr - (addr % flash_write_size)
    IN base..(base + flash_write_size - 1)

\* What the device does with one command: "ok"; "nack" (no 'K', nothing
\* stored); "nackw" (stored, 'K' lost in a timeout); "lost" ('K' but nothing
\* stored); for a read "ok" or "short" (timeout, fewer bytes than asked).
WriteOutcomes == {"ok", "nack", "nackw", "lost"}
AckOutcomes == {"ok", "nack"}
ReadOutcomes == {"ok", "short"}

\* outcomes the fault budget still allows
Allowed(S) == IF ~args.dry_run /\ faults < MaxFaults THEN S ELSE {"ok"}
Cost(o) == IF o = "ok" THEN 0 ELSE 1

\* ------------------------------------------------------ ArduinoProgrammer
\* lines 156-223, a method without its `if self.dry_run` guard
Call_NoGuard(op, addr, n, data, phase, ok) ==
    [op |-> op, addr |-> addr, n |-> n, data |-> data, phase |-> phase,
     ok |-> ok, wire |-> TRUE]

\* One log entry per method call; wire = the call used the serial port.
Call(op, addr, n, data, phase, ok) ==
    [op |-> op, addr |-> addr, n |-> n, data |-> data, phase |-> phase,
     ok |-> ok, wire |-> ~args.dry_run]

\* write_block(addr, data_bytes): returns ser.read() == b'K'
write_block_ret(o) == IF args.dry_run THEN TRUE ELSE o \in {"ok", "lost"}

write_block_dev(d, addr, data, o) ==
    IF ~args.dry_run /\ o \in {"ok", "nackw"} THEN DevStore(d, addr, data) ELSE d

\* read_block(addr, word_count): the bytes, or None on a short read
read_block_ret(d, addr, word_count, o) ==
    IF args.dry_run THEN [k \in 1..(2 * word_count) |-> int_to_bytes(SENTINEL)[((k - 1) % 2) + 1]]
    ELSE IF o = "ok" THEN DevBytes(d, addr, word_count) ELSE None

\* erase_row / bulk_erase: returns resp == b'K'
erase_ret(o) == IF args.dry_run THEN TRUE ELSE o = "ok"

\* ------------------------------------------------------------ sequencing
\* the `if args.<op>` guards of main(), lines 296-467, in program order
Requested(op) ==
    CASE op = "wipe" -> args.wipe
      [] op = "flash" -> args.flash /\ args.hexfile
      [] op = "verify" -> args.verify /\ args.hexfile
      [] op = "erase_row" -> args.erase_row
      [] op = "write" -> args.write
      [] op = "read" -> args.read
      [] op = "dump" -> args.dump

OpIndex(op) == CHOOSE k \in 1..Len(OpNames) : OpNames[k] = op

\* where main() goes after operation number k: the next requested one, or finally
After(k) ==
    LET later == {j \in (k + 1)..Len(OpNames) : Requested(OpNames[j])}
    IN IF later = {} THEN "finally"
       ELSE OpNames[CHOOSE j \in later : \A i \in later : j <= i]

AfterOp(op) == After(OpIndex(op))

\* lines 295 and 513: an exception (or sys.exit) raised inside the try block
\* runs the finally clause before it leaves main()
OnException_SkipFinally == "done"

OnException == "finally"

\* ------------------------------------------------------------------- Init
\* a run of main(): the codec functions are not exercised on their own
CodecIdle ==
    /\ codec_case = "none" /\ codec_pc = "idle"
    /\ mem = <<>> /\ key_order = <<>> /\ chunk_size_in = 1
    /\ recs = <<>> /\ hexfile_data = <<>> /\ hex_words = <<>> /\ final_chunks = <<>>

ArgsOf(S, dry, cfg, hex) ==
    [wipe |-> "wipe" \in S, flash |-> "flash" \in S, verify |-> "verify" \in S,
     erase_row |-> "erase_row" \in S, write |-> "write" \in S, read |-> "read" \in S,
     dump |-> "dump" \in S, dry_run |-> dry, config |-> cfg, hexfile |-> hex]

Init ==
    /\ \E S \in SUBSET OpSet, dry \in BOOLEAN, cfg \in BOOLEAN, hex \in BOOLEAN :
          /\ Cardinality(S) <= MaxOps
          \* the hexfile is read by flash and verify only, -c by flash only
          /\ (S \cap {"flash", "verify"} = {} => ~hex)
          /\ ("flash" \notin S => ~cfg)
          /\ args = ArgsOf(S, dry, cfg, hex)
    \* lines 244-287: -d loads the profile, and flash, verify and dump exit
    \* before connecting without it; without -d the defaults stay
    /\ \E p \in Profiles \cup {NoProfile} :
          /\ (p = NoProfile) = ~(args.flash \/ args.verify \/ args.dump)
          /\ flash_write_size = p[1]
          /\ rom_size = p[2]
          /\ config_mem_start = p[3]
          /\ config_mem_end = p[4]
    /\ \E A \in SUBSET HexAddrs :
          /\ (~args.hexfile => A = {})
          /\ raw_data = Restrict(Image, A)
    /\ dev = IF args.dry_run THEN <<>> ELSE DevInit
    /\ pc = "connect"
    /\ idx = 0
    /\ ser = "none"
    /\ log = <<>>
    /\ faults = 0
    /\ flash_data = <<>> /\ config_data = <<>> /\ flash_chunks = <<>>
    /\ flash_error = FALSE /\ config_ok = TRUE /\ flash_ok = TRUE
    /\ current_addr = 0 /\ remaining = 0
    /\ dump_data = <<>> /\ filtered_dump = <<>>
    /\ out = <<>>
    /\ exc = "none"
    /\ prior_runs = <<>>
    /\ CodecIdle

\* ---------------------------------------------------------------- connect
\* lines 291-293, going on whatever connect() returned
AfterConnect_IgnoreResult(h) == After(0)

\* lines 291-293: `if not prog.connect(...): sys.exit(1)`
AfterConnect(h) == IF h = "ok" THEN After(0) ELSE "exit"

\* lines 291-293 with connect(), lines 156-177.  h: the port cannot be opened
\* ("openfail"), the handshake is answered 'K' ("ok") or not ("nack").
Connect ==
    /\ pc = "connect"
    /\ IF args.dry_run
       THEN /\ log' = Append(log, Call("connect", 0, 0, <<>>, "connect", TRUE))
            /\ pc' = After(0)
            /\ UNCHANGED <<ser, faults>>
       ELSE \E h \in Allowed({"ok", "nack", "openfail"}) :
            /\ faults' = faults + Cost(h)
            /\ ser' = IF h = "openfail" THEN "none" ELSE "open"
            /\ log' = IF h = "openfail" THEN log
                      ELSE Append(log, Call("connect", 0, 0, <<>>, "connect", h = "ok"))
            /\ pc' = AfterConnect(h)
    /\ UNCHANGED <<inputs, idx, dev, flashv, dumpv, out, exc>>

\* ------------------------------------------------------------------- wipe
\* lines 296-300
Wipe ==
    /\ pc = "wipe"
    /\ \E o \in Allowed(AckOutcomes) :
          /\ faults' = faults + Cost(o)
          /\ log' = Append(log, Call("b", WIPE_ADDR, 0, <<>>, "wipe", erase_ret(o)))
          /\ dev' = IF ~args.dry_run /\ o = "ok" THEN <<>> ELSE dev
    /\ pc' = AfterOp("wipe")
    /\ UNCHANGED <<inputs, idx, ser, flashv, dumpv, out, exc>>

\* ------------------------------------------------------------------ flash
\* lines 302-315: decode, split, chunk
FlashBegin ==
    /\ pc = "flash"
    /\ flash_data' = SplitFlash(raw_data)
    /\ config_data' = SplitConfig(raw_data)
    /\ flash_chunks' = chunk_data(SplitFlash(raw_data), flash_write_size)
    /\ flash_error' = FALSE
    /\ idx' = 0
    /\ pc' = IF DOMAIN chunk_data(SplitFlash(raw_data), flash_write_size) = {}
             THEN "flash_end" ELSE "flash_loop"
    /\ UNCHANGED <<inputs, ser, dev, log, faults, config_ok, flash_ok, dumpv, out, exc>>

\* line 326 (and 352), the readback never compared
ReadbackDiffers_Never(verify_data, data) == FALSE

\* line 326 (and 352): the readback differs from what was written
ReadbackDiffers(verify_data, data) == verify_data # data

\* line 327 (and 353): the failure message calls verify_data.hex(); on None
\* that raises AttributeError before flash_error is set
MessageRaises(verify_data) == verify_data = None

\* lines 318-330 (and 343-356): what one iteration of a write loop decides.
\* "ok": next iteration; "fail": error flag and break; "raise": exception.
WriteStatus_IgnoreNack(ack, verify_data, data) ==
    IF ~ack \/ args.dry_run THEN "ok"
    ELSE IF ReadbackDiffers(verify_data, data)
         THEN (IF MessageRaises(verify_data) THEN "raise" ELSE "fail")
         ELSE "ok"

WriteStatus(ack, verify_data, data) ==
    IF ~ack THEN "fail"
    ELSE IF args.dry_run THEN "ok"
    ELSE IF ReadbackDiffers(verify_data, data)
         THEN (IF MessageRaises(verify_data) THEN "raise" ELSE "fail")
         ELSE "ok"

\* One iteration of a write loop, lines 317-330 (and 342-356): write_block,
\* then unless simulating read_block and compare.
WriteVerify(addr, data, phase, w, r) ==
    LET n == Len(data) \div 2
        ack == write_block_ret(w)
        d1 == write_block_dev(dev, addr, data, w)
        wcall == Call("w", addr, n, data, phase, ack)
        verify_data == read_block_ret(d1, addr, n, r)
        rcall == Call("r", addr, n, verify_data, phase, verify_data # None)
        reads == ack /\ ~args.dry_run
    IN [log |-> IF reads THEN <<wcall, rcall>> ELSE <<wcall>>,
        dev |-> d1,
        cost |-> Cost(w) + (IF reads THEN Cost(r) ELSE 0),
        status |-> WriteStatus(ack, verify_data, data)]

\* the outcome pairs the fault budget allows for a write followed by a readback
WROutcomes ==
    {<<w, r>> \in Allowed(WriteOutcomes) \X Allowed(ReadOutcomes) :
        /\ faults + Cost(w) + Cost(r) <= MaxFaults
        /\ (~write_block_ret(w) => r = "ok")}

\* lines 316-330: one iteration of the flash loop
FlashChunk ==
    /\ pc = "flash_loop"
    /\ LET keys == SortedKeys(flash_chunks)
           addr == keys[idx + 1]
       IN \E o \in WROutcomes :
            \E res \in {WriteVerify(addr, flash_chunks[addr], "flash", o[1], o[2])} :
               /\ log' = log \o res.log
               /\ dev' = res.dev
               /\ faults' = faults + res.cost
               /\ flash_error' = (res.status = "fail")
               /\ exc' = IF res.status = "raise" THEN "AttributeError" ELSE exc
               /\ idx' = IF res.status = "ok" THEN idx + 1 ELSE idx
               /\ pc' = CASE res.status = "raise" -> OnException
                          [] res.status = "fail" -> "flash_end"
                          [] OTHER -> IF idx + 1 = Len(keys) THEN "flash_end" ELSE "flash_loop"
    /\ UNCHANGED <<inputs, ser, flash_data, config_data, flash_chunks, config_ok, flash_ok,
                   dumpv, out>>

\* lines 332-340 and 362-363: the branch after the flash loop
FlashEnd ==
    /\ pc = "flash_end"
    /\ IF flash_error
       THEN /\ out' = Append(out, "FLASHING FAILED.")
            /\ pc' = AfterOp("flash")
            /\ UNCHANGED <<config_ok, idx>>
       ELSE IF args.config /\ DOMAIN config_data # {}
       THEN /\ config_ok' = TRUE
            /\ idx' = 0
            /\ pc' = "config_loop"
            /\ out' = out
       ELSE /\ out' = Append(out, "FLASH COMPLETE: SUCCESS")
            /\ pc' = AfterOp("flash")
            /\ UNCHANGED <<config_ok, idx>>
    /\ UNCHANGED <<inputs, ser, dev, log, faults, flash_data, config_data, flash_chunks,
                   flash_error, flash_ok, dumpv, exc>>

\* lines 341-356: one iteration of the config-word loop
ConfigWord ==
    /\ pc = "config_loop"
    /\ LET chunks == ConfigChunks(config_data)
           keys == SortedKeys(chunks)
           addr == keys[idx + 1]
       IN \E o \in WROutcomes :
            \E res \in {WriteVerify(addr, chunks[addr], "config", o[1], o[2])} :
               /\ log' = log \o res.log
               /\ dev' = res.dev
               /\ faults' = faults + res.cost
               /\ config_ok' = (res.status # "fail")
               /\ exc' = IF res.status = "raise" THEN "AttributeError" ELSE exc
               /\ idx' = IF res.status = "ok" THEN idx + 1 ELSE idx
               /\ pc' = CASE res.status = "raise" -> OnException
                          [] res.status = "fail" -> "config_end"
                          [] OTHER -> IF idx + 1 = Len(keys) THEN "config_end" ELSE "config_loop"
    /\ UNCHANGED <<inputs, ser, flash_data, config_data, flash_chunks, flash_error, flash_ok,
                   dumpv, out>>

\* lines 358-361
ConfigEnd ==
    /\ pc = "config_end"
    /\ out' = Append(out, IF config_ok THEN "FLASH & VERIFY COMPLETE: SUCCESS"
                          ELSE "FLASH & VERIFY COMPLETE: FAILED")
    /\ pc' = AfterOp("flash")
    /\ UNCHANGED <<inputs, idx, ser, dev, log, faults, flashv, dumpv, exc>>

\* ----------------------------------------------------------------- verify
\* lines 384-396: decode, split, chunk
VerifyBegin ==
    /\ pc = "verify"
    /\ flash_data' = SplitFlash(raw_data)
    /\ config_data' = SplitConfig(raw_data)
    /\ flash_chunks' = chunk_data(SplitFlash(raw_data), flash_write_size)
    /\ flash_ok' = TRUE
    /\ config_ok' = TRUE
    /\ idx' = 0
    /\ pc' = IF DOMAIN chunk_data(SplitFlash(raw_data), flash_write_size) # {} THEN "verify_flash"
             ELSE IF DOMAIN SplitConfig(raw_data) # {} THEN "verify_config"
             ELSE "verify_end"
    /\ UNCHANGED <<inputs, ser, dev, log, faults, flash_error, dumpv, out, exc>>

\* verify_chunks, lines 369-381: one iteration; TRUE when it sets verify_error
VerifyError(actual_data, expected_data) ==
    actual_data = None \/ actual_data # expected_data

\* line 394, a verify that writes the expected row back before reading it
VerifyFlashChunk_Rewrite ==
    /\ pc = "verify_flash"
    /\ LET keys == SortedKeys(flash_chunks)
           addr == keys[idx + 1]
           expected_data == flash_chunks[addr]
           word_count == Len(expected_data) \div 2
       IN /\ log' = log \o << Call("w", addr, word_count, expected_data, "verify_flash", TRUE),
                               Call("r", addr, word_count, expected_data, "verify_flash", TRUE) >>
          /\ dev' = write_block_dev(dev, addr, expected_data, "ok")
          /\ flash_ok' = TRUE
          /\ idx' = IF idx + 1 = Len(keys) THEN 0 ELSE idx + 1
          /\ pc' = IF idx + 1 < Len(keys) THEN "verify_flash"
                   ELSE IF DOMAIN config_data # {} THEN "verify_config"
                   ELSE "verify_end"
    /\ UNCHANGED <<inputs, ser, faults, flash_data, config_data, flash_chunks, flash_error,
                   config_ok, dumpv, out, exc>>

\* lines 394: verify_chunks over the flash chunks
VerifyFlashChunk ==
    /\ pc = "verify_flash"
    /\ LET keys == SortedKeys(flash_chunks)
           addr == keys[idx + 1]
           expected_data == flash_chunks[addr]
           word_count == Len(expected_data) \div 2
       IN \E r \in Allowed(ReadOutcomes) :
            \E actual_data \in {read_block_ret(dev, addr, word_count, r)} :
            \E err \in {VerifyError(actual_data, expected_data)} :
               /\ log' = Append(log, Call("r", addr, word_count, actual_data, "verify_flash",
                                          actual_data # None))
               /\ faults' = faults + Cost(r)
               /\ flash_ok' = ~err
               /\ idx' = IF err \/ idx + 1 = Len(keys) THEN 0 ELSE idx + 1
               /\ pc' = IF ~err /\ idx + 1 < Len(keys) THEN "verify_flash"
                        ELSE IF DOMAIN config_data # {} THEN "verify_config"
                        ELSE "verify_end"
    /\ UNCHANGED <<inputs, ser, dev, flash_data, config_data, flash_chunks, flash_error,
                   config_ok, dumpv, out, exc>>

\* lines 397-401: verify_chunks over the config words
VerifyConfigWord ==
    /\ pc = "verify_config"
    /\ LET chunks == ConfigChunks(config_data)
           keys == SortedKeys(chunks)
           addr == keys[idx + 1]
           expected_data == chunks[addr]
       IN \E r \in Allowed(ReadOutcomes) :
            \E actual_data \in {read_block_ret(dev, addr, 1, r)} :
            \E err \in {VerifyError(actual_data, expected_data)} :
               /\ log' = Append(log, Call("r", addr, 1, actual_data, "verify_config",
                                          actual_data # None))
               /\ faults' = faults + Cost(r)
               /\ config_ok' = ~err
               /\ idx' = IF err THEN idx ELSE idx + 1
               /\ pc' = IF ~err /\ idx + 1 < Len(keys) THEN "verify_config" ELSE "verify_end"
    /\ UNCHANGED <<inputs, ser, dev, flash_data, config_data, flash_chunks, flash_error,
                   flash_ok, dumpv, out, exc>>

\* lines 403-406: success needs both phases
VerifyResult_FlashOnly(fok, cok) ==
    IF fok THEN "VERIFY COMPLETE: SUCCESS" ELSE "VERIFY COMPLETE: FAILED"

VerifyResult(fok, cok) ==
    IF fok /\ cok THEN "VERIFY COMPLETE: SUCCESS" ELSE "VERIFY COMPLETE: FAILED"

VerifyEnd ==
    /\ pc = "verify_end"
    /\ out' = Append(out, VerifyResult(flash_ok, config_ok))
    /\ pc' = AfterOp("verify")
    /\ UNCHANGED <<inputs, idx, ser, dev, log, faults, flashv, dumpv, exc>>

\* -------------------------------------------------------------- erase row
\* lines 408-414
EraseRow ==
    /\ pc = "erase_row"
    /\ \E addr \in EraseAddrs, o \in Allowed(AckOutcomes) :
          /\ faults' = faults + Cost(o)
          /\ log' = Append(log, Call("e", addr, 0, <<>>, "erase_row", erase_ret(o)))
          /\ dev' = IF ~args.dry_run /\ o = "ok"
                    THEN DevErase(dev, DevRow(addr))
                    ELSE dev
    /\ pc' = AfterOp("erase_row")
    /\ UNCHANGED <<inputs, idx, ser, flashv, dumpv, out, exc>>

\* ------------------------------------------------------------------ write
\* lines 416-439: -w ADDR HEX_DATA
WriteOp ==
    /\ pc = "write"
    /\ \E addr \in WriteAddrs, hex_data_str \in WriteStrs :
         LET data == fromhex(hex_data_str)
         IN IF data = None \/ Len(data) % 2 # 0
            THEN \* sys.exit(1), lines 422-428
                 /\ exc' = "SystemExit"
                 /\ pc' = OnException
                 /\ UNCHANGED <<log, dev, faults>>
            ELSE \E o \in WROutcomes :
                 \E res \in {WriteVerify(addr, data, "write", o[1], o[2])} :
                    /\ log' = log \o res.log
                    /\ dev' = res.dev
                    /\ faults' = faults + res.cost
                    /\ exc' = IF res.status = "raise" THEN "AttributeError" ELSE exc
                    /\ pc' = IF res.status = "raise" THEN OnException ELSE AfterOp("write")
    /\ UNCHANGED <<inputs, idx, ser, flashv, dumpv, out>>

\* ------------------------------------------------------------------- read
\* lines 441-447: -r ADDR LEN
ReadBegin ==
    /\ pc = "read"
    /\ \E a \in ReadArgs :
          /\ current_addr' = a[1]
          /\ remaining' = a[2]
          /\ pc' = IF a[2] > 0 THEN "read_loop" ELSE AfterOp("read")
    /\ UNCHANGED <<inputs, idx, ser, dev, log, faults, flashv, dump_data, filtered_dump,
                   out, exc>>

\* lines 449-465: one iteration of the while loop
ReadChunk ==
    /\ pc = "read_loop"
    /\ LET fetch_len == Min(remaining, READ_CHUNK)
       IN \E r \in Allowed(ReadOutcomes) :
            \E data \in {read_block_ret(dev, current_addr, fetch_len, r)} :
               /\ log' = Append(log, Call("r", current_addr, fetch_len, data, "read",
                                          data # None))
               /\ faults' = faults + Cost(r)
               /\ IF data = None
                  THEN /\ pc' = AfterOp("read")
                       /\ UNCHANGED <<current_addr, remaining>>
                  ELSE /\ current_addr' = current_addr + Len(data) \div 2
                       /\ remaining' = remaining - fetch_len
                       /\ pc' = IF remaining - fetch_len > 0 THEN "read_loop"
                                ELSE AfterOp("read")
    /\ UNCHANGED <<inputs, idx, ser, dev, flashv, dump_data, filtered_dump, out, exc>>

\* ------------------------------------------------------------------- dump
\* lines 467-473
DumpBegin ==
    /\ pc = "dump"
    /\ dump_data' = <<>>
    /\ filtered_dump' = <<>>
    /\ idx' = 0
    /\ pc' = IF rom_size > 0 THEN "dump_flash" ELSE "dump_config"
    /\ UNCHANGED <<inputs, ser, dev, log, faults, flashv, current_addr, remaining, out, exc>>

\* lines 480-482 (and 491-493): the words of a block merged into dump_data
Merge(dd, addr, block_bytes) ==
    LET R == addr..(addr + Len(block_bytes) \div 2 - 1)
    IN [a \in DOMAIN dd \cup R |-> IF a \in R THEN WordAt(block_bytes, a - addr) ELSE dd[a]]

\* line 479 (and 490): `if block_bytes:` is false for None and for b''
Truthy(block_bytes) == block_bytes # None /\ block_bytes # <<>>

\* lines 483-484: what the flash loop of the dump does after a failed read
DumpStopsOnError == FALSE

\* lines 474-484: one iteration of the flash loop of the dump
DumpFlashRead ==
    /\ pc = "dump_flash"
    /\ LET addr == idx * READ_CHUNK
           count == Min(READ_CHUNK, rom_size - addr)
       IN \E r \in Allowed(ReadOutcomes) :
            \E block_bytes \in {read_block_ret(dev, addr, count, r)} :
            \E stop \in {~Truthy(block_bytes) /\ DumpStopsOnError} :
               /\ log' = Append(log, Call("r", addr, count, block_bytes, "dump_flash",
                                          block_bytes # None))
               /\ faults' = faults + Cost(r)
               /\ dump_data' = IF Truthy(block_bytes) THEN Merge(dump_data, addr, block_bytes)
                               ELSE dump_data
               /\ idx' = idx + 1
               /\ pc' = IF ~stop /\ (idx + 1) * READ_CHUNK < rom_size THEN "dump_flash"
                        ELSE "dump_config"
    /\ UNCHANGED <<inputs, ser, dev, flashv, current_addr, remaining, filtered_dump, out, exc>>

\* line 487: the dump reads the config region only when it starts above 0
ConfigDefined == config_mem_start > 0 /\ config_mem_end >= config_mem_start

\* lines 486-498
DumpConfigRead ==
    /\ pc = "dump_config"
    /\ IF ConfigDefined
       THEN LET cfg_len == (config_mem_end - config_mem_start) + 1
            IN \E r \in Allowed(ReadOutcomes) :
                 \E cfg_bytes \in {read_block_ret(dev, config_mem_start, cfg_len, r)} :
                    /\ log' = Append(log, Call("r", config_mem_start, cfg_len, cfg_bytes,
                                               "dump_config", cfg_bytes # None))
                    /\ faults' = faults + Cost(r)
                    /\ dump_data' = IF Truthy(cfg_bytes)
                                    THEN Merge(dump_data, config_mem_start, cfg_bytes)
                                    ELSE dump_data
       ELSE UNCHANGED <<log, faults, dump_data>>
    /\ pc' = "dump_save"
    /\ UNCHANGED <<inputs, idx, ser, dev, flashv, current_addr, remaining, filtered_dump,
                   out, exc>>

\* lines 501-505: the words kept for the HEX file
Kept(addr, val) == val # SENTINEL \/ IsConfigAddr(addr)

Filter(dd) == Restrict(dd, {a \in DOMAIN dd : Kept(a, dd[a])})

\* lines 500-509: filter, then save_hex(filename, filtered_dump)
DumpSave ==
    /\ pc = "dump_save"
    /\ filtered_dump' = Filter(dump_data)
    /\ out' = Append(out, "DUMP SAVED")
    /\ pc' = AfterOp("dump")
    /\ UNCHANGED <<inputs, idx, ser, dev, log, faults, flashv, current_addr, remaining,
                   dump_data, exc>>

\* ---------------------------------------------------------------- finally
\* lines 513-514 with disconnect(), lines 179-187
Disconnect ==
    /\ pc = "finally"
    /\ log' = Append(log, [Call("x", 0, 0, <<>>, "disconnect", TRUE)
                             EXCEPT !.wire = ~args.dry_run /\ ser = "open"])
    /\ ser' = IF ~args.dry_run /\ ser = "open" THEN "closed" ELSE ser
    /\ pc' = "done"
    /\ UNCHANGED <<inputs, idx, dev, faults, flashv, dumpv, out, exc>>

Next ==
    \/ Connect
    \/ Wipe
    \/ FlashBegin \/ FlashChunk \/ FlashEnd \/ ConfigWord \/ ConfigEnd
    \/ VerifyBegin \/ VerifyFlashChunk \/ VerifyConfigWord \/ VerifyEnd
    \/ EraseRow
    \/ WriteOp
    \/ ReadBegin \/ ReadChunk
    \/ DumpBegin \/ DumpFlashRead \/ DumpConfigRead \/ DumpSave
    \/ Disconnect

Spec == Init /\ [][Next]_vars

\* ------------------------------------------- flash, run again on the device
MaxRuns == 2            \* runs of main() on the same device

\* the program is started again with the same command line, HEX file and
\* profile; the device keeps what the earlier run left in it
Rerun ==
    /\ pc \in {"done", "exit"}
    /\ Len(prior_runs) + 1 < MaxRuns
    /\ prior_runs' = Append(prior_runs,
                            IF \E k \in 1..Len(out) :
                                  out[k] \in {"FLASH COMPLETE: SUCCESS",
                                              "FLASH & VERIFY COMPLETE: SUCCESS"}
                            THEN "ok" ELSE "failed")
    /\ pc' = "connect"
    /\ idx' = 0
    /\ ser' = "none"
    /\ flash_data' = <<>> /\ config_data' = <<>> /\ flash_chunks' = <<>>
    /\ flash_error' = FALSE /\ config_ok' = TRUE /\ flash_ok' = TRUE
    /\ out' = <<>>
    /\ exc' = "none"
    /\ UNCHANGED <<args, flash_write_size, rom_size, config_mem_start, config_mem_end,
                   raw_data, codecv, dev, log, faults, dumpv>>

\* -f (with or without -c) on a real port, with a HEX file
InitFlash ==
    /\ Init
    /\ \E cfg \in BOOLEAN : args = ArgsOf({"flash"}, FALSE, cfg, TRUE)

NextFlash ==
    \/ Connect
    \/ FlashBegin \/ FlashChunk \/ FlashEnd \/ ConfigWord \/ ConfigEnd
    \/ Disconnect
    \/ Rerun

SpecFlash == InitFlash /\ [][NextFlash]_vars

\* =========================================================== the HEX codec
\* A HEX text is a sequence of characters: 0..15 are the hex digits, NonHex
\* is any character int(_, 16) and bytes.fromhex reject, then ':' and '\n'.
NonHex == 16
Colon == 17
Newline == 18

\* f"{n:02X}" and f"{n:04X}"
Hex2(n) == << n \div 16, n % 16 >>

Hex4(n) == Hex2(n \div 256) \o Hex2(n % 256)

\* data.hex().upper()
hex(data) ==
    [k \in 1..(2 * Len(data)) |->
        IF k % 2 = 1 THEN data[(k + 1) \div 2] \div 16 ELSE data[k \div 2] % 16]

\* sum(data), over the first n bytes
RECURSIVE SumTo(_, _)
SumTo(data, n) == IF n = 0 THEN 0 ELSE SumTo(data, n - 1) + data[n]

\* ~c on a Python int
BitNot(c) == -c - 1

\* line 106, the one's complement alone
Checksum_NoCarry(c) == BitNot(c) % 256

\* line 106: (~checksum + 1) & 0xFF
Checksum(c) == (BitNot(c) + 1) % 256

\* lines 104-109: the text of one record
write_record(address, record_type, data) ==
    LET count == Len(data)
        checksum == Checksum(count + (address \div 256) + (address % 256)
                             + record_type + SumTo(data, Len(data)))
    IN <<Colon>> \o Hex2(count) \o Hex4(address) \o Hex2(record_type)
          \o hex(data) \o Hex2(checksum) \o <<Newline>>

\* line 137, stored high byte first instead
word_bytes_Big(word_val) == << word_val \div 256, word_val % 256 >>

\* line 137: word_val.to_bytes(2, 'little')
word_bytes(word_val) == << word_val % 256, word_val \div 256 >>

\* line 121: high_addr.to_bytes(2, 'big')
high_bytes(high_addr) == << high_addr \div 256, high_addr % 256 >>

\* `if line_data: write_record(line_start_addr, 0x00, line_data)`: the file after it
SaveFlush(st) ==
    IF st.line_data # <<>>
    THEN st.f \o write_record(st.line_start_addr, 0, st.line_data)
    ELSE st.f

\* lines 111-137: the body of the loop, for one word
SaveStep(st, word_addr, word_val) ==
    LET byte_addr == word_addr * 2
        high_addr == byte_addr \div 65536
        low_addr == byte_addr % 65536
        st1 == IF high_addr # st.current_high_addr
               THEN [st EXCEPT !.f = SaveFlush(st) \o write_record(0, 4, high_bytes(high_addr)),
                               !.line_data = <<>>,
                               !.current_high_addr = high_addr]
               ELSE st
        st2 == IF \/ st1.line_start_addr = -1
                  \/ low_addr # st1.line_start_addr + Len(st1.line_data)
                  \/ Len(st1.line_data) >= 16
               THEN [st1 EXCEPT !.f = SaveFlush(st1),
                                !.line_start_addr = low_addr,
                                !.line_data = <<>>]
               ELSE st1
    IN [st2 EXCEPT !.line_data = @ \o word_bytes(word_val)]

\* lines 99-137: the loop over sorted_addrs, after its first i addresses
RECURSIVE SaveFold(_, _, _)
SaveFold(keys, i, data_dict) ==
    IF i = 0
    THEN [f |-> <<>>, current_high_addr |-> 0, line_data |-> <<>>, line_start_addr |-> -1]
    ELSE SaveStep(SaveFold(keys, i - 1, data_dict), keys[i], data_dict[keys[i]])

\* lines 93-142: the text written to the file; nothing at all for an empty dict
save_hex(data_dict) ==
    IF DOMAIN data_dict = {} THEN <<>>
    ELSE LET st == SaveFold(SortedKeys(data_dict), Cardinality(DOMAIN data_dict), data_dict)
         IN SaveFlush(st) \o write_record(0, 1, <<>>)

\* line 48: f.read().replace('\n', '')
StripEol(t) == SelectSeq(t, LAMBDA c : c # Newline)

\* line 50: .lstrip(':')
lstrip(t) ==
    LET lead == {k \in 1..Len(t) : \A j \in 1..k : t[j] = Colon}
    IN SubSeq(t, Cardinality(lead) + 1, Len(t))

\* line 50: .split(':'), the text between the colons, empty pieces included
split(t) ==
    LET P == {k \in 1..Len(t) : t[k] = Colon}
        ps == SortedSeq(P)
        n == Cardinality(P)
    IN [i \in 1..(n + 1) |->
          SubSeq(t, IF i = 1 THEN 1 ELSE ps[i - 1] + 1,
                    IF i = n + 1 THEN Len(t) ELSE ps[i] - 1)]

\* s[i:j] for 0 <= i
Slice(s, i, j) == SubSeq(s, i + 1, Min(j, Len(s)))

\* int(s, base=16) raises ValueError on an empty string or a non-hex character
IsInt(s) == s # <<>> /\ \A k \in 1..Len(s) : s[k] < NonHex

RECURSIVE IntTo(_, _)
IntTo(s, n) == IF n = 0 THEN 0 ELSE IntTo(s, n - 1) * 16 + s[n]

int(s) == IntTo(s, Len(s))

\* lines 56-64: none of the four conversions raises ValueError
Parsable(record) ==
    /\ IsInt(Slice(record, 0, 2))
    /\ IsInt(Slice(record, 2, 6))
    /\ IsInt(Slice(record, 6, 8))
    /\ fromhex(Slice(record, 8, int(Slice(record, 0, 2)) * 2 + 8)) # None

\* int.from_bytes(b, 'big'), over the first n bytes
RECURSIVE BigTo(_, _)
BigTo(b, n) == IF n = 0 THEN 0 ELSE BigTo(b, n - 1) * 256 + b[n]

\* int.from_bytes(b, 'little') of at most two bytes
from_bytes_little(b) ==
    IF Len(b) = 0 THEN 0 ELSE IF Len(b) = 1 THEN b[1] ELSE b[1] + 256 * b[2]

\* line 68, without the division by the word size
HighOffset_Bytes(high_address) == high_address * 65536

\* line 68: (high_address << 16) // WORD_SIZE
HighOffset(high_address) == (high_address * 65536) \div 2

\* lines 63-64, dropping what was decoded so far instead
OnValueError_Abort(st) == [st EXCEPT !.words = <<>>]

\* lines 63-64: `except ValueError: continue`
OnValueError(st) == st

\* lines 52-77: the body of the loop, for one record
LoadStep(st, record) ==
    IF record = <<>> THEN st
    ELSE IF ~Parsable(record) THEN OnValueError(st)
    ELSE LET data_len == int(Slice(record, 0, 2))
             offset_addr == int(Slice(record, 2, 6))
             record_type == int(Slice(record, 6, 8))
             data_bytes == fromhex(Slice(record, 8, data_len * 2 + 8))
         IN IF record_type = 4 /\ data_len = 2
            THEN [st EXCEPT !.high_address_offset =
                               HighOffset(BigTo(data_bytes, Len(data_bytes)))]
            ELSE IF record_type = 0
            THEN LET base == st.high_address_offset + offset_addr \div 2
                     R == base..(base + (data_len + 1) \div 2 - 1)
                 IN [st EXCEPT !.words =
                        [a \in DOMAIN st.words \cup R |->
                            IF a \in R
                            THEN from_bytes_little(Slice(data_bytes, 2 * (a - base),
                                                         2 * (a - base) + 2))
                            ELSE st.words[a]]]
            ELSE st

\* lines 52-77: the loop over ascii_records, after its first i records
RECURSIVE LoadFold(_, _)
LoadFold(ascii_records, i) ==
    IF i = 0 THEN [words |-> <<>>, high_address_offset |-> 0]
    ELSE LoadStep(LoadFold(ascii_records, i - 1), ascii_records[i])

\* lines 37-79, on the text of the file
load_hex(text) ==
    LET ascii_records == split(lstrip(StripEol(text)))
    IN LoadFold(ascii_records, Len(ascii_records)).words

\* ---------------------------------------------- chunk_data on an ordered dict
\* line 20, walking the keys as the dict yields them
sorted_Unsorted(keys) == keys

\* line 20: sorted(data_dict.keys())
sorted(keys) == SortedSeq({keys[k] : k \in 1..Len(keys)})

\* lines 21-25 and 30: a dict keeps insertion order, so the rows come out in
\* the order in which the loop first met them
ChunkOrder(keys, chunk_size) ==
    LET base(k) == keys[k] - (keys[k] % chunk_size)
        firsts == SortedSeq({k \in 1..Len(keys) : \A j \in 1..(k - 1) : base(j) # base(k)})
    IN [i \in 1..Len(firsts) |-> base(firsts[i])]

\* lines 13-35 for a dict whose keys come in the order `keys`
chunk_data_items(keys, data_dict, chunk_size) ==
    LET ks == sorted(keys)
        chunks == ChunkFold(ks, Len(ks), data_dict, chunk_size)
    IN [order |-> ChunkOrder(ks, chunk_size),
        rows |-> [b \in DOMAIN chunks |-> RowBytes(chunks[b], chunk_size)]]

\* ------------------------------------------------------- codec input sets
MaxWords == 3           \* words of a drawn memory
MaxRecords == 3         \* records of a drawn HEX text

\* word addresses below 2^20: neighbours, gaps, both sides of a 64K byte page
CodecAddrs == {0, 1, 2, 7, 8, 32767, 32768, 65537, 1048575}

\* three images: mixed bytes, all ones, zero
ImageWord(v, a) ==
    CASE v = 1 -> 4660 + (a % 16) * 256
      [] v = 2 -> 65535
      [] OTHER -> 0

\* contiguous runs <<first address, length>>: longer than one 16-byte record,
\* and across a page boundary
Runs == { <<0, 8>>, <<0, 9>>, <<0, 17>>, <<32764, 8>>, <<32760, 16>> }

Memories ==
    { [a \in A |-> ImageWord(v, a)] :
        A \in {B \in SUBSET CodecAddrs : Cardinality(B) <= MaxWords}, v \in 1..3 }
    \cup { [a \in r[1]..(r[1] + r[2] - 1) |-> ImageWord(1, a)] : r \in Runs }

ChunkSizes == {1, 2, 4, 32}

\* the orders in which a dict with the keys S can yield them
Orders(S) ==
    {s \in [1..Cardinality(S) -> S] : \A i, j \in 1..Cardinality(S) : i # j => s[i] # s[j]}

\* Records of a HEX text that save_hex did not write: the characters between
\* ':' and the end of line, with what a well-formed one says.
Rec(ok, typ, off, data, chars) ==
    [ok |-> ok, typ |-> typ, off |-> off, data |-> data, chars |-> chars]

GoodRecords ==
    { Rec(TRUE, 4, 0, <<0, 1>>, <<0,2, 0,0,0,0, 0,4, 0,0,0,1, 15,9>>),
      Rec(TRUE, 4, 0, <<0, 2>>, <<0,2, 0,0,0,0, 0,4, 0,0,0,2, 15,8>>),
      Rec(TRUE, 0, 0, <<52, 18, 205, 171>>,
          <<0,4, 0,0,0,0, 0,0, 3,4,1,2,12,13,10,11, 3,14>>),
      Rec(TRUE, 0, 2, <<255, 63>>, <<0,2, 0,0,0,2, 0,0, 15,15,3,15, 11,14>>),
      Rec(TRUE, 0, 4, <<2, 1>>, <<0,2, 0,0,0,4, 0,0, 0,2,0,1, 15,7>>),
      Rec(TRUE, 1, 0, <<>>, <<0,0, 0,0,0,0, 0,1, 15,15>>) }

\* a non-hex character in the length, offset, type or data field, a data
\* field cut inside a byte, a record cut after its length field
BadRecords ==
    { Rec(FALSE, 0, 0, <<>>, <<NonHex,2, 0,0,0,0, 0,0, 0,2,0,1, 15,11>>),
      Rec(FALSE, 0, 0, <<>>, <<0,2, 0,0,NonHex,0, 0,0, 0,2,0,1, 15,11>>),
      Rec(FALSE, 0, 0, <<>>, <<0,2, 0,0,0,0, 0,NonHex, 0,2,0,1, 15,11>>),
      Rec(FALSE, 0, 0, <<>>, <<0,2, 0,0,0,0, 0,0, 0,NonHex,0,1, 15,11>>),
      Rec(FALSE, 0, 0, <<>>, <<0,2, 0,0,0,0, 0,0, 0,2,0>>),
      Rec(FALSE, 0, 0, <<>>, <<0,2>>),
      Rec(FALSE, 4, 0, <<>>, <<0,2, 0,0,0,0, 0,4, 0,0,NonHex,1, 15,9>>) }

RecordSet == GoodRecords \cup BadRecords

RecordLists == UNION { [1..n -> RecordSet] : n \in 1..MaxRecords }

\* the text with one record per line
RECURSIVE RenderTo(_, _)
RenderTo(rs, n) ==
    IF n = 0 THEN <<>> ELSE RenderTo(rs, n - 1) \o <<Colon>> \o rs[n].chars \o <<Newline>>

Render(rs) == RenderTo(rs, Len(rs))

\* rs without its k-th record
Without(rs, k) == [i \in 1..(Len(rs) - 1) |-> IF i < k THEN rs[i] ELSE rs[i + 1]]

\* ------------------------------------------- the codec functions on their own
runv == <<args, flash_write_size, rom_size, config_mem_start, config_mem_end, raw_data,
          prior_runs, pc, idx, ser, dev, log, faults, flashv, dumpv, out, exc>>

\* no run of main() is in progress
RunIdle ==
    /\ args = ArgsOf({}, FALSE, FALSE, FALSE)
    /\ flash_write_size = NoProfile[1] /\ rom_size = NoProfile[2]
    /\ config_mem_start = NoProfile[3] /\ config_mem_end = NoProfile[4]
    /\ raw_data = <<>> /\ dev = <<>>
    /\ pc = "done" /\ idx = 0 /\ ser = "none" /\ log = <<>> /\ faults = 0
    /\ flash_data = <<>> /\ config_data = <<>> /\ flash_chunks = <<>>
    /\ flash_error = FALSE /\ config_ok = TRUE /\ flash_ok = TRUE
    /\ current_addr = 0 /\ remaining = 0
    /\ dump_data = <<>> /\ filtered_dump = <<>>
    /\ out = <<>> /\ exc = "none" /\ prior_runs = <<>>

InitCodec ==
    /\ RunIdle
    /\ hex_words = <<>> /\ final_chunks = <<>>
    /\ \/ \* save_hex(mem), then load_hex of the file it wrote
          /\ codec_case = "save" /\ codec_pc = "save"
          /\ mem \in Memories
          /\ key_order = <<>> /\ chunk_size_in = 1 /\ recs = <<>> /\ hexfile_data = <<>>
       \/ \* load_hex of a text written by something else
          /\ codec_case = "text" /\ codec_pc = "load"
          /\ recs \in RecordLists
          /\ hexfile_data = Render(recs)
          /\ mem = <<>> /\ key_order = <<>> /\ chunk_size_in = 1
       \/ \* chunk_data(mem, chunk_size) for a dict yielding its keys in key_order
          /\ codec_case = "chunk" /\ codec_pc = "chunk"
          /\ \E A \in {B \in SUBSET CodecAddrs : Cardinality(B) <= MaxWords} :
                /\ mem = [a \in A |-> ImageWord(1, a)]
                /\ key_order \in Orders(A)
          /\ chunk_size_in \in ChunkSizes
          /\ recs = <<>> /\ hexfile_data = <<>>

SaveHex ==
    /\ codec_pc = "save"
    /\ hexfile_data' = save_hex(mem)
    /\ codec_pc' = "load"
    /\ UNCHANGED <<runv, codec_case, mem, key_order, chunk_size_in, recs, hex_words,
                   final_chunks>>

LoadHex ==
    /\ codec_pc = "load"
    /\ hex_words' = load_hex(hexfile_data)
    /\ codec_pc' = "done"
    /\ UNCHANGED <<runv, codec_case, mem, key_order, chunk_size_in, recs, hexfile_data,
                   final_chunks>>

ChunkData ==
    /\ codec_pc = "chunk"
    /\ final_chunks' = chunk_data_items(key_order, mem, chunk_size_in)
    /\ codec_pc' = "done"
    /\ UNCHANGED <<runv, codec_case, mem, key_order, chunk_size_in, recs, hexfile_data,
                   hex_words>>

NextCodec == SaveHex \/ LoadHex \/ ChunkData

SpecCodec == InitCodec /\ [][NextCodec]_vars

\* ======================================================= reading the log
Connected == Len(log) > 0 /\ log[1].op = "connect" /\ log[1].ok

Calls(phase, op) == {i \in 1..Len(log) : log[i].phase = phase /\ log[i].op = op}

InPhases(P) == {i \in 1..Len(log) : log[i].phase \in P}

Printed(m) == \E k \in 1..Len(out) : out[k] = m

InFlash == pc \in {"flash_loop", "flash_end", "config_loop", "config_end"}

\* ------------------------------------------------------------------- C1
\* C1: once connect() has succeeded the run cannot stop before disconnect():
\* every state short of the end has a next step, whatever failed or was
\* raised; the run that has ended called disconnect(); and the disconnect
\* call is the last call made on the channel.
C1_DisconnectLast ==
    /\ (Connected /\ pc # "done" => ENABLED Next)
    /\ (pc = "exit" => ~Connected)
    /\ (pc = "done" => Connected /\ log[Len(log)].op = "x")
    /\ \A i \in 1..Len(log) : log[i].op = "x" => (i = Len(log) /\ pc = "done")

\* an operation raised after a command on the wire, and the port was closed
C1_Witness ==
    /\ pc = "done" /\ exc = "AttributeError"
    /\ log[Len(log)].op = "x" /\ log[Len(log)].wire
    /\ ser = "closed"

\* ------------------------------------------------------------------- C2
\* C2: whenever connect() has opened the transport, the run ends (normally,
\* or halted after an unacknowledged handshake) with the transport closed.
C2_ReleasedOnEveryExit == pc \in {"done", "exit"} => ser # "open"

\* ------------------------------------------------------------------- C3
\* C3: flash chunks are written in ascending base order; when the write of
\* chunk k is not acknowledged no later call is made by the flash workflow
\* (no write or read of a later chunk, no config word, no erase), the
\* workflow reports "FLASHING FAILED." and never success, and when the flash
\* loop is left every chunk before k is still on the device.
C3_FailFast ==
    /\ \A i, j \in Calls("flash", "w") : i < j => log[i].addr < log[j].addr
    /\ \A i \in Calls("flash", "w") :
          ~log[i].ok =>
             /\ \A j \in InPhases({"flash", "config"}) : j <= i
             /\ flash_error \/ ~InFlash
             /\ ~InFlash => Printed("FLASHING FAILED.")
             /\ ~Printed("FLASH COMPLETE: SUCCESS")
             /\ ~Printed("FLASH & VERIFY COMPLETE: SUCCESS")
             /\ pc = "flash_end" =>
                   \A j \in Calls("flash", "w") :
                      j < i => DevBytes(dev, log[j].addr, log[j].n) = log[j].data

\* the second of three chunk writes is refused: the third is never written
C3_Witness ==
    /\ Len(SortedKeys(flash_chunks)) = 3
    /\ Cardinality(Calls("flash", "w")) = 2
    /\ \E i \in Calls("flash", "w") : ~log[i].ok /\ log[i].addr = SortedKeys(flash_chunks)[2]
    /\ Printed("FLASHING FAILED.")
    /\ pc = "done"

\* ------------------------------------------------------------------- C4
\* C4: in a non-simulated flash a readback that returns None marks the flash
\* phase failed, ends the workflow's calls, and FAILURE is reported.
C4_ShortReadbackFails ==
    \A i \in Calls("flash", "r") :
       log[i].data = None =>
          /\ \A j \in InPhases({"flash", "config"}) : j <= i
          /\ flash_error \/ Printed("FLASHING FAILED.")
          /\ pc = "done" => Printed("FLASHING FAILED.")

\* ------------------------------------------------------------------- C5
\* the split of the decoded image has been made (flash or verify workflow)
SplitDone == InFlash \/ pc \in {"verify_flash", "verify_config", "verify_end"}

\* C5: every decoded address a is in flashData iff a < totalFlashWords, and
\* in configData iff a config region is defined and start <= a <= end.
C5_Split ==
    SplitDone =>
       \A a \in DOMAIN raw_data :
          /\ (a \in DOMAIN flash_data) = (a < rom_size)
          /\ (a \in DOMAIN config_data) = (ConfigDefined /\ IsConfigAddr(a))

\* ------------------------------------------------------------------- C6
\* the row bases and payloads the claim expects, from the decoded image
ExpectedBases ==
    {a - (a % flash_write_size) : a \in {x \in DOMAIN raw_data : x < rom_size}}

ExpectedPayload(b) ==
    [k \in 1..(2 * flash_write_size) |->
        LET a == b + (k - 1) \div 2
            w == IF a \in DOMAIN raw_data /\ a < rom_size THEN raw_data[a] ELSE SENTINEL
        IN IF k % 2 = 1 THEN w \div 256 ELSE w % 256]

\* C6: when no command fails the flash loop issues exactly one writeBlock per
\* row base of the decoded addresses below totalFlashWords, ascending, each
\* payload one row of big-endian words padded with 0x3FFF; and a simulated
\* run reports success.
C6_OneWritePerRow ==
    /\ (pc = "flash_end" /\ ~flash_error /\ faults = 0) =>
          LET W == SortedSeq(Calls("flash", "w"))
              B == SortedSeq(ExpectedBases)
          IN /\ Len(W) = Len(B)
             /\ \A k \in 1..Len(W) :
                   /\ log[W[k]].addr = B[k]
                   /\ log[W[k]].n = flash_write_size
                   /\ log[W[k]].data = ExpectedPayload(B[k])
    /\ (pc = "done" /\ args.dry_run /\ Requested("flash")) =>
          \/ Printed("FLASH COMPLETE: SUCCESS")
          \/ Printed("FLASH & VERIFY COMPLETE: SUCCESS")

\* ------------------------------------------------------------------- C7
\* a config-phase call that failed: a write not acknowledged, or a readback
\* that is not the word just written
ConfigFailure(i) ==
    \/ log[i].op = "w" /\ ~log[i].ok
    \/ log[i].op = "r" /\ log[i].data # log[i - 1].data

\* C7: a config word is written only after every flash chunk was written
\* (and read back equal when not simulating), with -c given and configData
\* non-empty; config words go one per writeBlock in ascending order, each
\* followed by its own one-word readback; the first failed write or
\* mismatch ends the config calls and the result is FAILED.
C7_ConfigPhase ==
    /\ \A i \in Calls("config", "w") :
          /\ args.config /\ DOMAIN config_data # {} /\ ~flash_error
          /\ {log[j].addr : j \in {c \in Calls("flash", "w") : log[c].ok}} = DOMAIN flash_chunks
          /\ ~args.dry_run =>
                \A b \in DOMAIN flash_chunks :
                   \E j \in Calls("flash", "r") : j < i /\ log[j].addr = b
                                                   /\ log[j].data = flash_chunks[b]
          /\ log[i].n = 1
          /\ log[i].addr \in DOMAIN config_data
          /\ log[i].data = int_to_bytes(config_data[log[i].addr])
          /\ (~args.dry_run /\ log[i].ok) =>
                /\ i + 1 \in Calls("config", "r")
                /\ log[i + 1].addr = log[i].addr /\ log[i + 1].n = 1
    /\ \A i, j \in Calls("config", "w") : i < j => log[i].addr < log[j].addr
    /\ \A i \in InPhases({"config"}) :
          ConfigFailure(i) =>
             /\ \A j \in InPhases({"config"}) : j <= i
             /\ pc \notin {"config_loop", "config_end"} =>
                   Printed("FLASH & VERIFY COMPLETE: FAILED")

\* ------------------------------------------------------------------- C8
VerifyDone == Printed("VERIFY COMPLETE: SUCCESS") \/ Printed("VERIFY COMPLETE: FAILED")

\* what a verify read is compared with
VerifyExpected(i) ==
    IF log[i].phase = "verify_flash" THEN flash_chunks[log[i].addr]
    ELSE int_to_bytes(config_data[log[i].addr])

VerifyBad(i) == log[i].data # VerifyExpected(i)

\* the reads of one verify phase cover keys in order, up to the first bad read
PhaseReads(phase, keys) ==
    LET R == SortedSeq(Calls(phase, "r"))
    IN /\ Len(R) <= Len(keys)
       /\ \A k \in 1..Len(R) : log[R[k]].addr = keys[k]
       /\ \A k \in 1..(Len(R) - 1) : ~VerifyBad(R[k])
       /\ Len(R) = Len(keys) \/ VerifyBad(R[Len(R)])

PhaseOk(phase, keys) ==
    /\ Cardinality(Calls(phase, "r")) = Len(keys)
    /\ \A i \in Calls(phase, "r") : ~VerifyBad(i)

C9_DumpStopsAtFailure ==
    \A i \in Calls("dump_flash", "r") :
       ~log[i].ok => \A j \in Calls("dump_flash", "r") : j <= i

\* ------------------------------------------------------------------ C10
\* C10: a dumped address is kept iff its value is not 0x3FFF or it lies in
\* the device's config region (a profile without one has no such address).
C10_DumpFilter ==
    Printed("DUMP SAVED") =>
       \A a \in DOMAIN dump_data :
          (a \in DOMAIN filtered_dump)
             = (dump_data[a] # SENTINEL \/ (ConfigDefined /\ IsConfigAddr(a)))

\* ==================================================== reading a HEX text
\* the records of a text: what stands between the colons, line ends dropped
RecordsOf(t) == split(lstrip(StripEol(t)))

RecordType(record) == Slice(record, 6, 8)

Saved == codec_case = "save" /\ codec_pc \in {"load", "done"}

Decoded == codec_case = "text" /\ codec_pc = "done"

Chunked == codec_case = "chunk" /\ codec_pc = "done"

\* ------------------------------------------------------------------ C11
\* C11: round trip: load_hex of the text save_hex wrote for a memory returns
\* exactly that memory (empty, with gaps, over several 64K byte pages).
C11_RoundTrip ==
    codec_case = "save" /\ codec_pc = "done" => hex_words = mem

C11_Witness ==
    /\ codec_case = "save" /\ codec_pc = "done"
    /\ DOMAIN mem = {0, 32768, 1048575}
    /\ hex_words = mem

\* ------------------------------------------------------------------ C12
\* C12: every text save_hex writes, the one for the empty memory included,
\* holds exactly one type-1 (EOF) record, and it is the last record.
C12_EndsWithEof ==
    Saved =>
        LET rs == RecordsOf(hexfile_data)
        IN /\ RecordType(rs[Len(rs)]) = <<0, 1>>
           /\ Cardinality({k \in 1..Len(rs) : RecordType(rs[k]) = <<0, 1>>}) = 1

\* ------------------------------------------------------------------ C13
\* C13: every record save_hex writes (data, extended address, EOF) is a
\* string of bytes whose sum, checksum included, is 0 modulo 256.
C13_Checksum ==
    Saved =>
        LET rs == RecordsOf(hexfile_data)
        IN \A k \in 1..Len(rs) :
              rs[k] # <<>> =>
                 LET b == fromhex(rs[k])
                 IN /\ b # None
                    /\ Len(b) = b[1] + 5
                    /\ SumTo(b, Len(b)) % 256 = 0

C13_Witness ==
    /\ Saved
    /\ LET rs == RecordsOf(hexfile_data)
       IN /\ \E k \in 1..Len(rs) : RecordType(rs[k]) = <<0, 4>>
          /\ \E k \in 1..Len(rs) : RecordType(rs[k]) = <<0, 0>> /\ Slice(rs[k], 0, 2) = <<1, 0>>
          /\ \E k \in 1..Len(rs) : RecordType(rs[k]) = <<0, 0>> /\ Slice(rs[k], 2, 6) = <<15, 15, 15, 0>>
          /\ RecordType(rs[Len(rs)]) = <<0, 1>>
          /\ \A k \in 1..Len(rs) :
                LET b == fromhex(rs[k]) IN SumTo(b, Len(b)) % 256 = 0

\* ------------------------------------------------------------------ C14
\* what the claim says well-formed records decode to: a type-4 record with
\* two data bytes H replaces the offset by (H << 16) / 2, and the i-th word
\* of a type-0 record at byte offset o goes to offset + o / 2 + i
ClaimedStep(st, r) ==
    IF r.typ = 4 /\ Len(r.data) = 2
    THEN [st EXCEPT !.offset = ((r.data[1] * 256 + r.data[2]) * 65536) \div 2]
    ELSE IF r.typ = 0
    THEN LET n == Len(r.data) \div 2
             at(i) == st.offset + r.off \div 2 + i
         IN [st EXCEPT !.words =
                [a \in DOMAIN st.words \cup {at(i) : i \in 0..(n - 1)} |->
                    IF \E i \in 0..(n - 1) : at(i) = a
                    THEN LET i == a - at(0) IN r.data[2 * i + 1] + 256 * r.data[2 * i + 2]
                    ELSE st.words[a]]]
    ELSE st

RECURSIVE ClaimedTo(_, _)
ClaimedTo(rs, n) ==
    IF n = 0 THEN [words |-> <<>>, offset |-> 0] ELSE ClaimedStep(ClaimedTo(rs, n - 1), rs[n])

AllGood(rs) == \A k \in 1..Len(rs) : rs[k].ok

Ext1 == CHOOSE r \in GoodRecords : r.typ = 4 /\ r.data = <<0, 1>>

Ext2 == CHOOSE r \in GoodRecords : r.typ = 4 /\ r.data = <<0, 2>>

Data0 == CHOOSE r \in GoodRecords : r.typ = 0 /\ r.off = 0

\* C14: decoding a text of well-formed records: each type-4 record with two
\* data bytes H sets the word offset to (H << 16) / 2 in place of the earlier
\* one, and every later type-0 record stores its i-th word at
\* offset + o / 2 + i; type-4 data 0x0001 then type-0 at offset 0 gives 0x8000.
C14_ExtendedAddress ==
    Decoded /\ AllGood(recs) =>
        /\ hex_words = ClaimedTo(recs, Len(recs)).words
        /\ (recs = <<Ext1, Data0>> => hex_words = (32768 :> 4660) @@ (32769 :> 43981))
        /\ (recs = <<Ext1, Ext2, Data0>> => hex_words = (65536 :> 4660) @@ (65537 :> 43981))

C14_Witness ==
    /\ Decoded
    /\ recs = <<Ext1, Ext2, Data0>>
    /\ DOMAIN hex_words = {65536, 65537}

\* ------------------------------------------------------------------ C15
\* C15: chunk_data returns one row per distinct base a - a mod chunkSize;
\* every input address sits in exactly one row, at offset a mod chunkSize,
\* big-endian; every row has chunkSize words; every other cell is 0x3FFF;
\* and the result does not depend on the order the input yields its keys in.
C15_ChunkCoverage ==
    Chunked =>
        LET rows == final_chunks.rows
            cs == chunk_size_in
        IN /\ DOMAIN rows = {a - (a % cs) : a \in DOMAIN mem}
           /\ \A a \in DOMAIN mem :
                 /\ Cardinality({b \in DOMAIN rows : b <= a /\ a < b + cs}) = 1
                 /\ LET b == a - (a % cs)
                    IN /\ rows[b][2 * (a % cs) + 1] = mem[a] \div 256
                       /\ rows[b][2 * (a % cs) + 2] = mem[a] % 256
           /\ \A b \in DOMAIN rows :
                 /\ Len(rows[b]) = 2 * cs
                 /\ \A o \in 0..(cs - 1) :
                       b + o \notin DOMAIN mem =>
                          rows[b][2 * o + 1] = 63 /\ rows[b][2 * o + 2] = 255
           /\ final_chunks = chunk_data_items(SortedKeys(mem), mem, cs)

C15_Witness ==
    /\ Chunked
    /\ key_order = <<8, 0, 2>>
    /\ chunk_size_in = 4
    /\ final_chunks.order = <<0, 8>>
    /\ final_chunks.rows[0] = <<18, 52, 63, 255, 20, 52, 63, 255>>

\* ------------------------------------------------------------------ C16
FlashSucceeded ==
    Printed("FLASH COMPLETE: SUCCESS") \/ Printed("FLASH & VERIFY COMPLETE: SUCCESS")

\* the device after one successful flash of the image: every row holding a
\* program word rewritten (erased where the image has no word), then with -c
\* the configuration words, everything else as it was
FlashedDev ==
    LET fd == SplitFlash(raw_data)
        cd == IF args.config THEN SplitConfig(raw_data) ELSE <<>>
        rows == UNION {DevRow(a) : a \in DOMAIN fd}
    IN [a \in DOMAIN DevInit \cup rows \cup DOMAIN cd |->
          IF a \in DOMAIN cd THEN cd[a]
          ELSE IF a \in DOMAIN fd THEN fd[a]
          ELSE IF a \in rows THEN SENTINEL
          ELSE DevInit[a]]

SameMemory(d, e) == \A a \in DOMAIN d \cup DOMAIN e : DevWord(d, a) = DevWord(e, a)

\* C16: against a device that stores what is written and returns it, a flash
\* run that reports success leaves the same memory whether it is the first
\* run, a second run after a successful one, or a run after one that failed
\* part-way; and a second run on a device that never failed succeeds.
C16_FlashRerun ==
    pc = "done" =>
        /\ (FlashSucceeded => SameMemory(dev, FlashedDev))
        /\ (prior_runs = <<"ok">> /\ faults = 0 /\ Connected => FlashSucceeded)

C16_Witness ==
    /\ pc = "done"
    /\ prior_runs = <<"failed">>
    /\ \E i \in 1..Len(log) : log[i].op = "w" /\ log[i].phase = "flash" /\ ~log[i].ok /\ i > 3
    /\ Cardinality(DOMAIN flash_chunks) > 1
    /\ FlashSucceeded
    /\ SameMemory(dev, FlashedDev)
    /\ ~SameMemory(dev, DevInit)

\* ------------------------------------------------------------------ C17
\* the commands that operate on the device memory
OperationCalls == {i \in 1..Len(log) : log[i].op \in {"w", "r", "e", "b"} /\ log[i].wire}

\* C17: no write, read, erase-row or bulk-erase command goes to the device
\* unless the session-start command went first and was answered 'K'; a run
\* whose handshake failed has stopped and has sent no such command.
C17_HandshakeFirst ==
    /\ OperationCalls # {} =>
          /\ log[1].op = "connect" /\ log[1].wire /\ log[1].ok
          /\ 1 \notin OperationCalls
    /\ pc = "exit" =>
          /\ ~ENABLED Next
          /\ OperationCalls = {}
          /\ \A i \in 1..Len(log) : log[i].op = "connect" /\ ~log[i].ok

C17_Witness ==
    /\ pc = "exit"
    /\ args.flash /\ args.hexfile /\ args.wipe
    /\ Len(log) = 1 /\ log[1].op = "connect" /\ log[1].wire /\ ~log[1].ok
    /\ ser = "open"

\* ------------------------------------------------------------------ C18
DumpFlashReads == Calls("dump_flash", "r")

DumpConfigReads == Calls("dump_config", "r")

BlockOf(i) == log[i].addr..(log[i].addr + log[i].n - 1)

\* the profile names a config region (main() keeps 0..0 when it names none)
RegionNamed == <<config_mem_start, config_mem_end>> # <<0, 0>>

C19_Permissive ==
    Decoded =>
        \A k \in 1..Len(recs) :
            ~recs[k].ok => hex_words = load_hex(Render(Without(recs, k)))

C19_Witness ==
    /\ Decoded
    /\ recs[1] = Ext1
    /\ Len(recs) = 3 /\ ~recs[2].ok /\ recs[3] = Data0
    /\ hex_words = (32768 :> 4660) @@ (32769 :> 43981)

\* ------------------------------------------------------------------ C20
\* C20: in a simulated run the port is never opened and no call of connect,
\* write_block, read_block, erase_row, bulk_erase or disconnect uses it:
\* nothing is sent, nothing is read, the device is not touched.
C20_DryRun ==
    args.dry_run =>
        /\ ser = "none"
        /\ \A i \in 1..Len(log) : ~log[i].wire
        /\ dev = <<>>

C20_Witness ==
    /\ args.dry_run
    /\ pc = "done"
    /\ ser = "none"
    /\ {log[i].op : i \in 1..Len(log)} = {"connect", "w", "r", "x"}
    /\ \A i \in 1..Len(log) : ~log[i].wire

\* ------------------------------------------------------------------ C21
\* the positions of main() inside the verify and the dump workflow
ReadOnlyPcs == {"verify", "verify_flash", "verify_config", "verify_end",
                "dump", "dump_flash", "dump_config", "dump_save"}

\* one step of main() taken inside the verify or the dump workflow: the
\* device memory stays, the log grows by read_block calls only
ReadOnlyStep ==
    pc \in ReadOnlyPcs =>
        /\ dev' = dev
        /\ Len(log') >= Len(log)
        /\ SubSeq(log', 1, Len(log)) = log
        /\ \A i \in (Len(log) + 1)..Len(log') : log'[i].op = "r"

\* C21: every step main() takes inside the verify or the dump workflow
\* leaves the device memory as it is and issues nothing but read_block
\* calls, whether the reads succeed, fail or return other data.
C21_ReadOnly == [][ReadOnlyStep]_vars

C21_Witness ==
    /\ pc = "finally"
    /\ args.verify /\ args.dump /\ ~args.dry_run
    /\ Printed("VERIFY COMPLETE: FAILED") /\ Printed("DUMP SAVED")
    /\ \E i \in Calls("verify_flash", "r") : log[i].ok /\ log[i].data # flash_chunks[log[i].addr]
    /\ \E i \in Calls("dump_flash", "r") : ~log[i].ok
    /\ \A i \in 2..Len(log) : log[i].op = "r"
    /\ dev = DevInit

====
